---- MODULE Spec2Model ----
(***************************************************************************)
(* Colocations.py: the time-windowed co-location pipeline of class         *)
(* Colocation (dataframe_split -> get_intersections -> get_colocations).   *)
(*                                                                         *)
(* Coordinates are integers in units of 1e-5 degree, so the buffer radius  *)
(* dst / 100000 (degrees) of add_short_range_communication_area is dst     *)
(* units.  Timestamps are integer epoch seconds.                           *)
(***************************************************************************)
EXTENDS Integers, Sequences, FiniteSets, TLC

VARIABLES
    data,             \* self.data after preprocessing: the table of records
    tw,               \* the window width passed to dataframe_split
    pc,               \* "start", "coloc", "done", "returned" or "raised"
    df_split,         \* the partitions returned by dataframe_split
    df_dfs_int,       \* get_intersections' result: one table per partition
    w,                \* the partition the loop of line 212 reduces next
    df_coloc,         \* df_coloc of the last iteration (line 230)
    df_coloc_frames,  \* the df_coloc of every iteration so far, in order
    df_ac,            \* the output table (lines 206, 233)
    set_order,        \* iteration orders of the sets of line 215 seen so far
    run,              \* 1 in the first run of the pipeline, 2 in a second
    first_run         \* how the first run ended, once a second has begun

vars == <<data, tw, pc, df_split, df_dfs_int, w, df_coloc, df_coloc_frames,
          df_ac, set_order, run, first_run>>

-----------------------------------------------------------------------------
(* Bounds of the model *)

\* the longest record table
MaxRecords == 3

\* dataframe_split called on its own: timestamps 0..MaxSplitStamp, widths
\* -MaxWidth..MaxWidth
MaxSplitStamp == 5

MaxWidth == 3

(* Program constants *)

\* dataframe_split(self, tw=150)
DefaultTw == 150

\* obj.add_short_range_communication_area(500)
Dst == 500

-----------------------------------------------------------------------------
(* Input universe *)

UserIds == {0, 1, 2}

\* the first timestamp, one inside the first window, and the border of the
\* first two windows
SampleTimestamps == {0, DefaultTw \div 2, DefaultTw}

BorderTimestamps == {0, DefaultTw}

\* Positions <<latitude, longitude>>.  Near and Far are 1400.6 apart; Near
\* and Edge are 999.8 apart: closer than 2*Dst, yet beyond the reach of the
\* two buffered polygons; Edge and Far are 401 apart.
Near == <<0, 0>>

Edge == <<999, 40>>

Far == <<1400, 40>>

RecordsOf(users, positions, stamps) ==
    {[user_id |-> u, latitude |-> p[1], longitude |-> p[2],
      sampletimestamp |-> t] : u \in users, p \in positions, t \in stamps}

SeqsUpTo(S, n) == UNION {[1..m -> S] : m \in 0..n}

-----------------------------------------------------------------------------
(* Sequence helpers (pandas / python list behaviour) *)

Range(s) == {s[k] : k \in DOMAIN s}

RECURSIVE Flatten(_)
Flatten(ss) ==
    IF Len(ss) = 0 THEN <<>>
    ELSE Flatten(SubSeq(ss, 1, Len(ss) - 1)) \o ss[Len(ss)]

\* Series.unique(): the distinct values in order of first appearance
RECURSIVE unique(_)
unique(s) ==
    IF Len(s) = 0 THEN <<>>
    ELSE LET front == unique(SubSeq(s, 1, Len(s) - 1)) IN
         IF s[Len(s)] \in Range(front) THEN front
         ELSE Append(front, s[Len(s)])

SetMin(S) == CHOOSE x \in S : \A y \in S : x <= y

SetMax(S) == CHOOSE x \in S : \A y \in S : x >= y

Abs(x) == IF x < 0 THEN -x ELSE x

\* int(a / b) of python: the quotient truncated toward zero (b # 0)
IntTrunc(a, b) ==
    IF (a >= 0) = (b > 0) THEN Abs(a) \div Abs(b)
    ELSE -(Abs(a) \div Abs(b))

-----------------------------------------------------------------------------
(* add_short_range_communication_area + intersects *)

\* buffer(r) of a point is the regular polygon with 64 vertices (16 per quadrant) on
\* the circle of radius r, one vertex at angle 0.  Its edge normals point at
\* (2k+1)*pi/64; by symmetry only the first octant's 8 normals are needed:
\* cos and sin of (2k+1)*pi/64, k = 0..7, scaled by 10^6.
EdgeCos == <<998795, 989177, 970031, 941544, 903989, 857729, 803208, 740951>>

EdgeSin == <<49068, 146730, 242980, 336890, 427555, 514103, 595699, 671559>>

\* Two such polygons of circumradius Dst intersect iff the centre offset lies
\* in the polygon of circumradius 2*Dst (its Minkowski sum with itself).
intersects(i, j) ==
    LET dx == Abs(i.latitude - j.latitude)
        dy == Abs(i.longitude - j.longitude)
        hi == IF dx >= dy THEN dx ELSE dy
        lo == IF dx >= dy THEN dy ELSE dx
        R  == 2 * Dst
    IN  IF hi > R THEN FALSE
        ELSE \A k \in DOMAIN EdgeCos :
                hi * EdgeCos[k] + lo * EdgeSin[k] <= R * EdgeCos[1]

-----------------------------------------------------------------------------
(* dataframe_split *)

Timestamps(d) == {d[k].sampletimestamp : k \in DOMAIN d}

\* mutants of InWindow: the lower bound dropped; the upper bound exclusive
InWindowNoLowerBound(d, lo, width) ==
    SelectSeq(d, LAMBDA r : r.sampletimestamp <= lo + width)

InWindowHalfOpen(d, lo, width) ==
    SelectSeq(d, LAMBDA r : r.sampletimestamp >= lo
                           /\ r.sampletimestamp < lo + width)

InWindow(d, lo, width) ==
    SelectSeq(d, LAMBDA r : r.sampletimestamp >= lo
                           /\ r.sampletimestamp <= lo + width)

\* mutant of NumFrames: the + 1 forgotten
NumFramesNoPlusOne(d, width) ==
    IntTrunc(SetMax(Timestamps(d)) - SetMin(Timestamps(d)), width)

\* the number of dataframes, line 149
NumFrames(d, width) ==
    IntTrunc(SetMax(Timestamps(d)) - SetMin(Timestamps(d)), width) + 1

NextMinStp(min_stp, width) == min_stp + width

\* the for loop of lines 151-159: i counts the iterations done
RECURSIVE SplitLoop(_, _, _, _, _, _)
SplitLoop(d, width, min_stp, i, df_s, df_split_list) ==
    IF i >= df_s THEN df_split_list
    ELSE SplitLoop(d, width, NextMinStp(min_stp, width), i + 1, df_s,
                   Append(df_split_list, InWindow(d, min_stp, width)))

\* min()/max() of an empty column is nan and a zero width divides by zero:
\* int() of line 149 raises before the loop
SplitRaises(d, width) == Len(d) = 0 \/ width = 0

dataframe_split(d, width) ==
    SplitLoop(d, width, SetMin(Timestamps(d)), 0, NumFrames(d, width), <<>>)

-----------------------------------------------------------------------------
(* get_intersections *)

Column(df, col) == [k \in 1..Len(df) |-> df[k][col]]

\* df_dfs[user], lines 180-182
UserFrame(part, user) == SelectSeq(part, LAMBDA r : r.user_id = user)

\* mutants of other_users: every user but the subject; users[k:]
other_users_all(users, k) ==
    SelectSeq(users, LAMBDA u : u # users[k])

other_users_from_subject(users, k) == SubSeq(users, k, Len(users))

\* users[k+1:], line 186 (k is 1-based here)
other_users(users, k) == SubSeq(users, k + 1, Len(users))

\* line 191
OverlapRow(i, j) ==
    [uid_1 |-> i.user_id, timestamp_uid_1 |-> i.sampletimestamp,
     uid_2 |-> j.user_id, timestamp_uid_2 |-> j.sampletimestamp]

\* lines 189-191: the rows of one subject record against one other user
RowsAgainst(i, frame) ==
    Flatten([n \in 1..Len(frame) |->
                IF intersects(i, frame[n]) THEN <<OverlapRow(i, frame[n])>>
                ELSE <<>>])

\* lines 177-194: the intersections of one partition
Intersections(part) ==
    LET users == unique(Column(part, "user_id")) IN
    Flatten([k \in 1..(Len(users) - 1) |->
        LET subject == UserFrame(part, users[k])
            others  == other_users(users, k)
        IN  Flatten([m \in 1..Len(subject) |->
                Flatten([u \in 1..Len(others) |->
                    RowsAgainst(subject[m], UserFrame(part, others[u]))])])])

\* lines 170-198, given the partitions of line 173
get_intersections(split) == [n \in 1..Len(split) |-> Intersections(split[n])]

-----------------------------------------------------------------------------
(* get_colocations *)

\* the couples of a partition's intersections in the order they are inserted
\* into the set of line 215
CouplesInserted(df) ==
    unique([k \in 1..Len(df) |-> <<df[k].uid_1, df[k].uid_2>>])

Orderings(s) ==
    {p \in [1..Len(s) -> Range(s)] : Range(p) = Range(s)}

\* mutant of SetIteration: an order that varies from run to run
SetIterationUnfixed(inserted, memo) ==
    {p \in [1..Len(inserted) -> {inserted[k] : k \in DOMAIN inserted}] :
        {p[k] : k \in DOMAIN p} = {inserted[k] : k \in DOMAIN inserted}}

\* Iterating a python set: the order is fixed by the interpreter build as a
\* function of the insertions, and is not the insertion order.  memo holds
\* the orders this build has shown so far.
SetIteration(inserted, memo) ==
    IF inserted \in DOMAIN memo THEN {memo[inserted]}
    ELSE Orderings(inserted)

\* line 221
CoupleRows(df, couple) ==
    SelectSeq(df, LAMBDA r : r.uid_1 = couple[1] /\ r.uid_2 = couple[2])

\* mutant of df_time: the second user's timestamps left out
df_time_first_column(sc) == [k \in 1..Len(sc) |-> sc[k].timestamp_uid_1]

\* line 223
df_time(sc) ==
    Column(sc, "timestamp_uid_1") \o Column(sc, "timestamp_uid_2")

ColocRow(n1, n2, t, c) ==
    [node_1 |-> n1, node_2 |-> n2, timestamp |-> t, connection |-> c]

\* lines 224-227
CoupleEvents(df, couple) ==
    LET times == Range(df_time(CoupleRows(df, couple))) IN
    << ColocRow(couple[1], couple[2], SetMin(times), "up"),
       ColocRow(couple[1], couple[2], SetMax(times), "down"),
       ColocRow(couple[2], couple[1], SetMin(times), "up"),
       ColocRow(couple[2], couple[1], SetMax(times), "down") >>

\* lines 218-230
Coloc(df, users_couples) ==
    Flatten([c \in 1..Len(users_couples) |-> CoupleEvents(df, users_couples[c])])

-----------------------------------------------------------------------------
(* The pipeline as a state machine *)

NoFrames == <<>>

NoOrder == [x \in {} |-> x]

Fresh ==
    /\ pc = "start"
    /\ df_split = NoFrames
    /\ df_dfs_int = NoFrames
    /\ w = 1
    /\ df_coloc = <<>>
    /\ df_coloc_frames = NoFrames
    /\ df_ac = <<>>

InitWith(tables, widths) ==
    /\ data \in tables
    /\ tw \in widths
    /\ set_order = NoOrder
    /\ run = 1
    /\ first_run = <<>>
    /\ Fresh

\* obj.get_colocations() of line 260: tw is the default of dataframe_split
Init ==
    InitWith(SeqsUpTo(RecordsOf(UserIds, {Near, Far}, SampleTimestamps),
                      MaxRecords), {DefaultTw})

\* line 209 (with line 173): raises when dataframe_split raises
GetIntersectionsRaises ==
    /\ pc = "start"
    /\ SplitRaises(data, tw)
    /\ pc' = "raised"
    /\ UNCHANGED <<data, tw, df_split, df_dfs_int, w, df_coloc,
                   df_coloc_frames, df_ac, set_order, run, first_run>>

\* line 209: df_dfs_int = self.get_intersections()
GetIntersections ==
    /\ pc = "start"
    /\ ~SplitRaises(data, tw)
    /\ df_split' = dataframe_split(data, tw)
    /\ df_dfs_int' = get_intersections(df_split')
    /\ pc' = "coloc"
    /\ UNCHANGED <<data, tw, w, df_coloc, df_coloc_frames, df_ac,
                   set_order, run, first_run>>

\* one iteration of the loop of lines 212-233
ColocWindow ==
    /\ pc = "coloc"
    /\ w <= Len(df_dfs_int)
    /\ LET df == df_dfs_int[w]
           inserted == CouplesInserted(df)
       IN  \E users_couples \in SetIteration(inserted, set_order) :
              /\ set_order' = (inserted :> users_couples) @@ set_order
              /\ df_coloc' = Coloc(df, users_couples)
              /\ df_coloc_frames' = Append(df_coloc_frames, df_coloc')
              /\ df_ac' = df_ac \o df_coloc'
    /\ w' = w + 1
    /\ UNCHANGED <<data, tw, pc, df_split, df_dfs_int, run, first_run>>

\* lines 236-242: reset_index keeps the rows and their order
ColocReturn ==
    /\ pc = "coloc"
    /\ w > Len(df_dfs_int)
    /\ pc' = "done"
    /\ UNCHANGED <<data, tw, df_split, df_dfs_int, w, df_coloc,
                   df_coloc_frames, df_ac, set_order, run, first_run>>

Next == GetIntersectionsRaises \/ GetIntersections \/ ColocWindow \/ ColocReturn

Spec == Init /\ [][Next]_vars

\* the same pipeline over positions that include the Edge position
InitGeo ==
    InitWith(SeqsUpTo(RecordsOf(UserIds, {Near, Edge, Far}, BorderTimestamps),
                      MaxRecords), {DefaultTw})

SpecGeo == InitGeo /\ [][Next]_vars

-----------------------------------------------------------------------------
(* The pipeline run a second time on the same table by the same build *)

Outcome == <<pc, df_ac>>

Rerun ==
    /\ pc \in {"done", "raised"}
    /\ run = 1
    /\ run' = 2
    /\ first_run' = Outcome
    /\ pc' = "start"
    /\ df_split' = NoFrames
    /\ df_dfs_int' = NoFrames
    /\ w' = 1
    /\ df_coloc' = <<>>
    /\ df_coloc_frames' = NoFrames
    /\ df_ac' = <<>>
    /\ UNCHANGED <<data, tw, set_order>>

InitTwice ==
    InitWith(SeqsUpTo(RecordsOf(UserIds, {Near, Far}, BorderTimestamps),
                      MaxRecords), {DefaultTw})

NextTwice == Next \/ Rerun

SpecTwice == InitTwice /\ [][NextTwice]_vars

-----------------------------------------------------------------------------
(* dataframe_split(tw) called on its own *)

InitSplit ==
    InitWith(SeqsUpTo(RecordsOf({0}, {Near}, 0..MaxSplitStamp), MaxRecords),
             (-MaxWidth)..MaxWidth)

DataframeSplitRaises ==
    /\ pc = "start"
    /\ SplitRaises(data, tw)
    /\ pc' = "raised"
    /\ UNCHANGED <<data, tw, df_split, df_dfs_int, w, df_coloc,
                   df_coloc_frames, df_ac, set_order, run, first_run>>

DataframeSplit ==
    /\ pc = "start"
    /\ ~SplitRaises(data, tw)
    /\ df_split' = dataframe_split(data, tw)
    /\ pc' = "returned"
    /\ UNCHANGED <<data, tw, df_dfs_int, w, df_coloc, df_coloc_frames,
                   df_ac, set_order, run, first_run>>

NextSplit == DataframeSplitRaises \/ DataframeSplit

SpecSplit == InitSplit /\ [][NextSplit]_vars

-----------------------------------------------------------------------------
(* Vocabulary of the properties *)

MinStp == SetMin(Timestamps(data))

MaxStp == SetMax(Timestamps(data))

\* the inclusive bounds of window k (1-based): [min + (k-1)*tw, min + k*tw]
WindowLo(k) == MinStp + (k - 1) * tw

WindowHi(k) == WindowLo(k) + tw

Split == pc \in {"coloc", "done"}

\* get_colocations has returned its table
Finished == pc = "done"

\* the windows get_colocations has reduced so far
Reduced == DOMAIN df_coloc_frames

Pairs == {<<a, b>> \in UserIds \X UserIds : a < b}

RowsOfPair(k, a, b) ==
    SelectSeq(df_dfs_int[k], LAMBDA r : {r.uid_1, r.uid_2} = {a, b})

EventsOfPair(k, a, b) ==
    SelectSeq(df_coloc_frames[k], LAMBDA e : {e.node_1, e.node_2} = {a, b})

Matching(events, n1, n2, c) ==
    {n \in DOMAIN events : /\ events[n].node_1 = n1
                           /\ events[n].node_2 = n2
                           /\ events[n].connection = c}

OverlapStamps(rows) ==
    {rows[n].timestamp_uid_1 : n \in DOMAIN rows}
        \cup {rows[n].timestamp_uid_2 : n \in DOMAIN rows}

\* the couples of a window's block of events, one per group of 4 rows
BlockCouples(k) ==
    [c \in 1..(Len(df_coloc_frames[k]) \div 4) |->
        <<df_coloc_frames[k][4 * c - 3].node_1,
          df_coloc_frames[k][4 * c - 3].node_2>>]

\* the output table is the windows' blocks, in window order
TableIsBlocksInOrder == df_ac = Flatten(df_coloc_frames)

-----------------------------------------------------------------------------
\* C1: in every window, a user pair with at least one overlap row gets
\* exactly 4 events, one of each of (a,b,up), (a,b,down), (b,a,up),
\* (b,a,down), with up.timestamp <= down.timestamp in both orientations; a
\* pair with no overlap row in the window gets none.
C1_FourEventsPerPair ==
    Finished => \A k \in Reduced : \A p \in Pairs :
        LET a == p[1]
            b == p[2]
            ev == EventsOfPair(k, a, b)
        IN  IF Len(RowsOfPair(k, a, b)) > 0
            THEN /\ Len(ev) = 4
                 /\ \A o \in {<<a, b>>, <<b, a>>} :
                       /\ Cardinality(Matching(ev, o[1], o[2], "up")) = 1
                       /\ Cardinality(Matching(ev, o[1], o[2], "down")) = 1
                       /\ \A u \in Matching(ev, o[1], o[2], "up") :
                          \A d \in Matching(ev, o[1], o[2], "down") :
                             ev[u].timestamp <= ev[d].timestamp
            ELSE Len(ev) = 0

\* a finished run with three users in one window: one pair has an overlap
\* row, discovered with the larger user id first, and another pair has none
C1_Witness ==
    /\ pc = "done"
    /\ \E k \in Reduced :
          /\ \E n \in DOMAIN df_dfs_int[k] :
                df_dfs_int[k][n].uid_1 > df_dfs_int[k][n].uid_2
          /\ \E p \in Pairs : Len(RowsOfPair(k, p[1], p[2])) = 0
          /\ Len(df_coloc_frames[k]) = 4
          /\ Cardinality({df_split[k][n].user_id : n \in DOMAIN df_split[k]}) = 3

-----------------------------------------------------------------------------
\* C4: for every window and every pair with overlap rows in it, the pair's
\* "up" events carry the minimum and its "down" events the maximum of the
\* timestamps of both users over all the pair's overlap rows in the window.
C4_UpIsMinDownIsMax ==
    Finished => \A k \in Reduced : \A p \in Pairs :
        LET rows == RowsOfPair(k, p[1], p[2])
            ev == EventsOfPair(k, p[1], p[2])
        IN  Len(rows) > 0 =>
              /\ \E n \in DOMAIN ev : ev[n].connection = "up"
              /\ \E n \in DOMAIN ev : ev[n].connection = "down"
              /\ \A n \in DOMAIN ev :
                    ev[n].timestamp =
                       IF ev[n].connection = "up"
                       THEN SetMin(OverlapStamps(rows))
                       ELSE SetMax(OverlapStamps(rows))

\* a pair with several overlap rows in a window, whose earliest timestamp is
\* the second user's and whose latest is the first user's
C4_Witness ==
    \E k \in Reduced : \E p \in Pairs :
        LET rows == RowsOfPair(k, p[1], p[2]) IN
        /\ Len(rows) > 1
        /\ \A n \in DOMAIN rows :
              SetMin(OverlapStamps(rows)) < rows[n].timestamp_uid_1
        /\ \E n \in DOMAIN rows :
              SetMax(OverlapStamps(rows)) = rows[n].timestamp_uid_1
        /\ Len(EventsOfPair(k, p[1], p[2])) = 4

-----------------------------------------------------------------------------
\* C7: no overlap row has uid_1 = uid_2 and no row of the output table has
\* node_1 = node_2.
C7_NoSelfPairs ==
    Finished =>
    /\ \A k \in DOMAIN df_dfs_int : \A n \in DOMAIN df_dfs_int[k] :
          df_dfs_int[k][n].uid_1 # df_dfs_int[k][n].uid_2
    /\ \A n \in DOMAIN df_ac : df_ac[n].node_1 # df_ac[n].node_2

\* a finished run with events, in which one user has two overlapping records
\* of their own in a window where they also overlap another user
C7_Witness ==
    /\ pc = "done"
    /\ \E k \in DOMAIN df_split : \E m, n \in DOMAIN df_split[k] :
          /\ m < n
          /\ df_split[k][m].user_id = df_split[k][n].user_id
          /\ intersects(df_split[k][m], df_split[k][n])
          /\ Len(df_coloc_frames[k]) > 0
          /\ \E r \in DOMAIN df_dfs_int[k] :
                df_split[k][m].user_id
                    \in {df_dfs_int[k][r].uid_1, df_dfs_int[k][r].uid_2}

-----------------------------------------------------------------------------
\* the 1-based windows whose partition holds the record
WindowsHolding(r) == {k \in DOMAIN df_split : r \in Range(df_split[k])}

\* the record's timestamp is min + k*tw for some k >= 1
OnBorder(r) ==
    /\ r.sampletimestamp > MinStp
    /\ (r.sampletimestamp - MinStp) % tw = 0

\* that k: windows k-1 and k (0-based) are windows k and k+1 here
BorderIndex(r) == (r.sampletimestamp - MinStp) \div tw

\* C9: a record whose timestamp is min + k*tw, k >= 1, is in the partitions
\* of exactly the two consecutive windows k-1 and k, and every other record
\* in exactly one; two records of distinct users on the same border whose
\* communication areas intersect give an overlap row and events in both.
C9_BorderRecordsInTwoWindows ==
    Finished =>
      /\ \A n \in DOMAIN data :
            IF OnBorder(data[n])
            THEN WindowsHolding(data[n]) =
                    {BorderIndex(data[n]), BorderIndex(data[n]) + 1}
            ELSE Cardinality(WindowsHolding(data[n])) = 1
      /\ \A m, n \in DOMAIN data :
            ( /\ data[m].user_id # data[n].user_id
              /\ data[m].sampletimestamp = data[n].sampletimestamp
              /\ OnBorder(data[m])
              /\ intersects(data[m], data[n]) )
            => \A k \in {BorderIndex(data[m]), BorderIndex(data[m]) + 1} :
                  /\ \E r \in DOMAIN df_dfs_int[k] :
                        /\ {df_dfs_int[k][r].uid_1, df_dfs_int[k][r].uid_2}
                              = {data[m].user_id, data[n].user_id}
                        /\ df_dfs_int[k][r].timestamp_uid_1
                              = data[m].sampletimestamp
                        /\ df_dfs_int[k][r].timestamp_uid_2
                              = data[m].sampletimestamp
                  /\ k \in Reduced =>
                        \E e \in DOMAIN df_coloc_frames[k] :
                           {df_coloc_frames[k][e].node_1,
                            df_coloc_frames[k][e].node_2}
                              = {data[m].user_id, data[n].user_id}

\* a finished run in which two intersecting records of distinct users lie on
\* the border of two windows, both of which get events, next to a record
\* that lies on no border
C9_Witness ==
    /\ pc = "done"
    /\ \E m, n \in DOMAIN data :
          /\ data[m].user_id # data[n].user_id
          /\ data[m].sampletimestamp = data[n].sampletimestamp
          /\ OnBorder(data[m])
          /\ intersects(data[m], data[n])
          /\ Len(df_coloc_frames[BorderIndex(data[m])]) > 0
          /\ Len(df_coloc_frames[BorderIndex(data[m]) + 1]) > 0
    /\ \E n \in DOMAIN data : ~OnBorder(data[n])

-----------------------------------------------------------------------------
\* C10: every event of window k's block has a timestamp within the window's
\* inclusive bounds which is the timestamp of a record, in the window's
\* partition, of one of the event's two users; the output table is the
\* blocks in window order, so timestamps never decrease from a block to a
\* later block, and are equal only on the border shared by adjacent windows.
C10_EventStampsInsideWindow ==
    Finished =>
      /\ TableIsBlocksInOrder
      /\ \A k \in Reduced : \A n \in DOMAIN df_coloc_frames[k] :
            LET e == df_coloc_frames[k][n] IN
            /\ WindowLo(k) <= e.timestamp
            /\ e.timestamp <= WindowHi(k)
            /\ \E r \in DOMAIN df_split[k] :
                  /\ df_split[k][r].user_id \in {e.node_1, e.node_2}
                  /\ df_split[k][r].sampletimestamp = e.timestamp
      /\ \A i, j \in Reduced :
            i < j =>
               \A m \in DOMAIN df_coloc_frames[i] :
               \A n \in DOMAIN df_coloc_frames[j] :
                  LET e == df_coloc_frames[i][m]
                      f == df_coloc_frames[j][n]
                  IN  /\ e.timestamp <= f.timestamp
                      /\ e.timestamp = f.timestamp =>
                            j = i + 1 /\ e.timestamp = WindowHi(i)

\* a finished run with events in two adjacent windows: the first block has
\* an event inside its window and one on the shared border, where the second
\* block has one too
C10_Witness ==
    /\ pc = "done"
    /\ \E i \in Reduced :
          /\ i + 1 \in Reduced
          /\ \E m \in DOMAIN df_coloc_frames[i] :
                df_coloc_frames[i][m].timestamp < WindowHi(i)
          /\ \E m \in DOMAIN df_coloc_frames[i] :
                df_coloc_frames[i][m].timestamp = WindowHi(i)
          /\ \E n \in DOMAIN df_coloc_frames[i + 1] :
                df_coloc_frames[i + 1][n].timestamp = WindowHi(i)

-----------------------------------------------------------------------------
\* C5: the output table holds the windows' blocks in window order, and within
\* a window's block the pairs' groups of 4 events are in the order in which
\* the pairs' first overlap rows were produced by get_intersections.
C5_BlocksInDiscoveryOrder ==
    /\ TableIsBlocksInOrder
    /\ \A k \in Reduced : BlockCouples(k) = CouplesInserted(df_dfs_int[k])

-----------------------------------------------------------------------------
\* circles of radius Dst around the two positions overlap: centre distance
\* <= sum of the radii
CirclesOverlap(i, j) ==
    (i.latitude - j.latitude) * (i.latitude - j.latitude)
      + (i.longitude - j.longitude) * (i.longitude - j.longitude)
        <= (2 * Dst) * (2 * Dst)

\* the overlap rows of window k for records (a, ta) and (b, tb)
RowsFor(k, a, ta, b, tb) ==
    {n \in DOMAIN df_dfs_int[k] :
        \/ df_dfs_int[k][n] = [uid_1 |-> a, timestamp_uid_1 |-> ta,
                               uid_2 |-> b, timestamp_uid_2 |-> tb]
        \/ df_dfs_int[k][n] = [uid_1 |-> b, timestamp_uid_1 |-> tb,
                               uid_2 |-> a, timestamp_uid_2 |-> ta]}

\* the cross-pairs of records (a, ta), (b, tb) of window k's partition that
\* satisfy Overlap
CrossPairs(k, a, ta, b, tb, Overlap(_, _)) ==
    {mn \in (DOMAIN df_split[k]) \X (DOMAIN df_split[k]) :
        LET i == df_split[k][mn[1]]
            j == df_split[k][mn[2]]
        IN  /\ i.user_id = a /\ i.sampletimestamp = ta
            /\ j.user_id = b /\ j.sampletimestamp = tb
            /\ Overlap(i, j)}

OneRowPerCrossPair(Overlap(_, _)) ==
    Split =>
      \A k \in DOMAIN df_split : \A p \in Pairs :
      \A ta, tb \in Timestamps(df_split[k]) :
         Cardinality(RowsFor(k, p[1], ta, p[2], tb))
            = Cardinality(CrossPairs(k, p[1], ta, p[2], tb, Overlap))

\* C3: in every window there is exactly one overlap row for each cross-pair
\* of records of two distinct users whose centre distance is <= the sum of
\* the radii, and none for a cross-pair farther apart.
C3_OneRowPerOverlappingCrossPair == OneRowPerCrossPair(CirclesOverlap)

\* the same count, with the cross-pairs whose buffered areas intersect
RowsMatchIntersectingCrossPairs == OneRowPerCrossPair(intersects)

-----------------------------------------------------------------------------
-----------------------------------------------------------------------------
\* C2: for a non-empty table and tw > 0, dataframe_split returns
\* floor((max - min) / tw) + 1 partitions, the i-th holding the records with
\* timestamps in [min + i*tw, min + i*tw + tw]; the starts increase strictly
\* and the windows cover [min, max], so every record is in some partition.
C2_WindowCountAndCover ==
    (Len(data) > 0 /\ tw > 0 /\ pc # "start") =>
      /\ pc = "returned"
      /\ Len(df_split) = (MaxStp - MinStp) \div tw + 1
      /\ \A k \in DOMAIN df_split :
            df_split[k] =
               SelectSeq(data, LAMBDA r : /\ WindowLo(k) <= r.sampletimestamp
                                          /\ r.sampletimestamp <= WindowHi(k))
      /\ \A k \in DOMAIN df_split :
            k + 1 \in DOMAIN df_split => WindowLo(k) < WindowLo(k + 1)
      /\ \A t \in MinStp..MaxStp :
            \E k \in DOMAIN df_split : WindowLo(k) <= t /\ t <= WindowHi(k)
      /\ \A n \in DOMAIN data :
            \E k \in DOMAIN df_split : data[n] \in Range(df_split[k])

\* a call that returned three or more windows, the last one starting below
\* the maximum, with a width that does not divide max - min
C2_Witness ==
    /\ pc = "returned"
    /\ tw > 1
    /\ Len(df_split) >= 3
    /\ (MaxStp - MinStp) % tw # 0
    /\ \E k \in DOMAIN df_split : Len(df_split[k]) = 0

-----------------------------------------------------------------------------
\* C6: dataframe_split with tw <= 0 ends in an error before any partition is
\* built; it never returns a list of partitions.
C6_NonPositiveWidthRejected ==
    (tw <= 0 /\ pc # "start") => (pc = "raised" /\ df_split = NoFrames)

====
